---- MODULE Spec2Model ----
(***************************************************************************)
(* Model of LosslessCompressor (src/main.py): the recursive substitution   *)
(* driver compress(), the encoder gen_output(), the file the artifact is   *)
(* saved to and read back from (save_file / read_file) and the decoder     *)
(* extract_input() / uncompress().                                         *)
(*                                                                         *)
(* A character is its Unicode code point, a str is a sequence of code      *)
(* points, and a dict is the sequence of its <<key, value>> items in       *)
(* insertion order.  Offsets into a str are 0-based as in the source.      *)
(***************************************************************************)
EXTENDS Integers, Sequences, FiniteSets, TLC

VARIABLES
    pc,                 \* where the program is
    input_text, mode,   \* the text read from the input file (line 181) and the mode (line 37)
    chain,              \* chain[n]: the (prev_text, prev_lookup) of invocation n of compress
    depth,              \* the invocation that is running
    chunk_index, chunk, duplicate_indexes, key, temp_len, prev_same_count,
                        \* the locals of the running invocation (lines 123-145)
    rets,               \* rets[n]: what invocation n returned
    output_text,        \* the characters of the .llc file (lines 189, 204)
    d_text, d_lookup, d_mode,  \* the result of extract_input (line 317)
    output              \* the result of uncompress (line 318)

locals == <<chunk_index, chunk, duplicate_indexes, key, temp_len, prev_same_count>>
decoder == <<d_text, d_lookup, d_mode, output>>

vars == <<pc, input_text, mode, chain, depth, locals, rets, output_text, decoder>>

\* ---------------------------------------------------------------- bounds
\* longest input text given to compress
MaxLen == 12
\* longest raw artifact given directly to uncompress
MaxArtLen == 4
\* longest input text of the runs checked for termination
MaxLiveLen == 9

\* characters of the input texts: 'a' (1 byte in UTF-8) and the euro sign (3 bytes)
Alphabet == {97, 8364}
\* characters of the raw artifacts: the three reserved characters, the first
\* mode-0 key, line feed, carriage return, 'a' and the first mode-1 key
ArtAlphabet == {0, 1, 2, 3, 10, 13, 97, 1114111}
\* the number of dictionary entries at which the mode-0 key is chr(13)
CrEntries == 11

\* ------------------------------------------------------------- attributes
text_delimeter == 0
lookup_delimeter == 1
lookup_key_prefixes == <<2, 1114111>>

\* ------------------------------------------------------- str primitives
Min(a, b) == IF a <= b THEN a ELSE b

\* s[i:j] for 0 <= i, 0 <= j (both ends clamped to len(s))
Slice(s, i, j) ==
    LET lo == Min(i, Len(s))
        hi == Min(j, Len(s))
    IN  IF hi <= lo THEN <<>> ELSE SubSeq(s, lo + 1, hi)

\* c in s
Contains(s, c) == \E k \in 1..Len(s) : s[k] = c

\* len(s.encode()): the number of UTF-8 bytes of s
Utf8Len(c) == IF c < 128 THEN 1 ELSE IF c < 2048 THEN 2 ELSE IF c < 65536 THEN 3 ELSE 4

\* the sum of the byte counts of the characters, taken half by half
RECURSIVE EncodedLen(_)
EncodedLen(s) ==
    IF s = <<>> THEN 0
    ELSE IF Len(s) = 1 THEN Utf8Len(s[1])
    ELSE LET h == Len(s) \div 2
         IN  EncodedLen(SubSeq(s, 1, h)) + EncodedLen(SubSeq(s, h + 1, Len(s)))

\* s.replace(old, new): left to right, non-overlapping occurrences; from
\* offset i the text up to the next occurrence of old is copied, new is
\* written for the occurrence, and the search goes on behind it
RECURSIVE ReplaceFrom(_, _, _, _)
ReplaceFrom(s, i, old, new) ==
    IF old = <<>>
    THEN IF i >= Len(s) THEN new
         ELSE new \o <<s[i + 1]>> \o ReplaceFrom(s, i + 1, old, new)
    ELSE LET found == {j \in i..(Len(s) - Len(old)) : Slice(s, j, j + Len(old)) = old}
         IN  IF found = {} THEN Slice(s, i, Len(s))
             ELSE LET j == CHOOSE j \in found : \A k \in found : j <= k
                  IN  Slice(s, i, j) \o new \o ReplaceFrom(s, j + Len(old), old, new)

Replace(s, old, new) == ReplaceFrom(s, 0, old, new)

\* s.split(c) for a one-character separator c: always at least one piece
RECURSIVE Split(_, _)
Split(s, c) ==
    IF ~Contains(s, c) THEN <<s>>
    ELSE LET k == CHOOSE k \in 1..Len(s) : s[k] = c /\ \A j \in 1..(k - 1) : s[j] # c
         IN  <<SubSeq(s, 1, k - 1)>> \o Split(SubSeq(s, k + 1, Len(s)), c)

\* sep.join(parts)
RECURSIVE Join(_, _)
Join(sep, parts) ==
    IF parts = <<>> THEN <<>>
    ELSE IF Len(parts) = 1 THEN parts[1]
    ELSE parts[1] \o sep \o Join(sep, Tail(parts))

\* ------------------------------------------------------- dict primitives
Keys(lookup) == {lookup[k][1] : k \in 1..Len(lookup)}

\* lookup[k] = v: a new key is appended, an existing key keeps its place
DictSet(lookup, k, v) ==
    IF k \in Keys(lookup)
    THEN [n \in 1..Len(lookup) |-> IF lookup[n][1] = k THEN <<k, v>> ELSE lookup[n]]
    ELSE Append(lookup, <<k, v>>)

\* list(lookup.items())[-1::-1]
Reversed(items) == [k \in 1..Len(items) |-> items[Len(items) + 1 - k]]

\* ------------------------------------------------- percentage_change
\* (difference / original) * 100 as the exact fraction num / den; the driver
\* only calls it with original = input_size > 0
percentage_change(m, original, new) ==
    LET difference == IF m = 1 THEN new - original ELSE original - new
    IN  [num |-> difference * 100, den |-> original]

\* p < 0 and p <= q for two such fractions with positive denominators
IsNegative(p) == p.num < 0
AtMost(p, q) == p.num * q.den <= q.num * p.den

\* ----------------------------------------------------------- gen_output
\* variant: the terminator is written even when the dictionary is empty
gen_output_terminated(text, lookup) ==
    LET lookup_output == Join(<<lookup_delimeter>>,
                              [k \in 1..Len(lookup) |-> lookup[k][1] \o lookup[k][2]])
    IN  lookup_output \o <<text_delimeter>> \o text

gen_output(text, lookup) ==
    LET lookup_output == Join(<<lookup_delimeter>>,
                              [k \in 1..Len(lookup) |-> lookup[k][1] \o lookup[k][2]])
    IN  lookup_output \o (IF lookup # <<>> THEN <<text_delimeter>> ELSE <<>>) \o text

\* ------------------------------------------------------- gen_hash_table
\* every chunk of length chunk_len |-> the ascending list of its offsets
gen_hash_table(text, chunk_len) ==
    LET offsets == [k \in 1..(Len(text) - chunk_len + 1) |-> k - 1]
        chunks  == {Slice(text, offsets[k], offsets[k] + chunk_len) : k \in 1..Len(offsets)}
    IN  [c \in chunks |-> SelectSeq(offsets, LAMBDA i : Slice(text, i, i + chunk_len) = c)]

\* ----------------------------------------------------- compress (inner)
\* variant: the mode-0 base length equals the length of the in-text symbol
base_chunk_len_short(m) == <<2, 2>>[m + 1]

\* line 120
base_chunk_len(m) == <<3, 2>>[m + 1]

\* line 126: the offsets of the chunk at offset ci, other than ci itself
duplicates(text, m, ci) ==
    LET chunk_len  == base_chunk_len(m)
        hash_table == gen_hash_table(text, chunk_len)
    IN  SelectSeq(hash_table[Slice(text, ci, ci + chunk_len)], LAMBDA i : i # ci)

\* variant: the key does not advance with the size of the dictionary
next_key_fixed(m, lookup) ==
    IF m = 0 THEN <<lookup_key_prefixes[1] + 1>> ELSE <<lookup_key_prefixes[2]>>

\* line 130
next_key(m, lookup) ==
    IF m = 0 THEN <<lookup_key_prefixes[1] + 1 + Len(lookup)>>
             ELSE <<lookup_key_prefixes[2] - Len(lookup)>>

\* lines 148, 295: the in-text form of a key, prefix + key in mode 0 and the
\* bare key in mode 1
symbol(m, k) == IF m = 0 THEN <<lookup_key_prefixes[1]>> \o k ELSE k

\* lines 152/165: the size of an output in the mode's unit
measure(m, s) == IF m = 0 THEN EncodedLen(s) ELSE Len(s)

\* line 185
input_size == EncodedLen(input_text)

\* lines 151-153, 164-166: percent_compression of a (text, lookup) pair
ratio(c) == percentage_change(0, input_size, measure(mode, gen_output(c.text, c.lookup)))

\* variant: a tie keeps the invocation's own substitution
decide_strict(prev, cur, next) ==
    IF IsNegative(ratio(cur)) /\ IsNegative(ratio(next)) THEN prev
    ELSE IF ~AtMost(ratio(next), ratio(cur)) THEN next ELSE cur

\* variant: the result of the recursive call is never preferred
decide_stop(prev, cur, next) ==
    IF IsNegative(ratio(cur)) /\ IsNegative(ratio(next)) THEN prev ELSE cur

\* lines 169-170: what the invocation with argument prev returns, given its
\* own substitution cur and the result next of its recursive call (lookup is
\* never empty after line 147, so line 170 always returns)
decide(prev, cur, next) ==
    IF IsNegative(ratio(cur)) /\ IsNegative(ratio(next)) THEN prev
    ELSE IF AtMost(ratio(cur), ratio(next)) THEN next ELSE cur

\* ------------------------------------------------------------ read_file
\* lines 366-367: open(path, 'r') reads with universal newlines, every
\* chr(13) chr(10) and every other chr(13) of the file is returned as chr(10)
read_file(contents) ==
    LET offsets == [k \in 1..Len(contents) |-> k]
        \* the chr(10) of a chr(13) chr(10) pair is dropped
        kept    == SelectSeq(offsets, LAMBDA k : ~(contents[k] = 10 /\ k > 1 /\ contents[k - 1] = 13))
    IN  [n \in 1..Len(kept) |-> IF contents[kept[n]] = 13 THEN 10 ELSE contents[kept[n]]]

\* ------------------------------------------------------- extract_input
extract_input(input) ==
    LET m       == IF Contains(input, lookup_key_prefixes[1]) THEN 0 ELSE 1
        parts   == Split(input, text_delimeter)
        entries == Split(parts[1], lookup_delimeter)
        RECURSIVE build(_, _)
        build(k, acc) ==
            IF k > Len(entries) THEN acc
            ELSE build(k + 1, DictSet(acc, Slice(entries[k], 0, 1),
                                      Slice(entries[k], 1, Len(entries[k]))))
    IN  IF m = 1 /\ \E k \in 1..Len(entries) : entries[k] = <<>>
        THEN [error |-> "IndexError"]
        ELSE [error |-> "none",
              text |-> Join(<<10>>, Tail(parts)),
              lookup |-> build(1, <<>>),
              mode |-> m]

\* ---------------------------------------------------------- uncompress
RECURSIVE replay(_, _, _)
replay(text, items, m) ==
    IF items = <<>> THEN text
    ELSE replay(Replace(text, symbol(m, Head(items)[1]), Head(items)[2]), Tail(items), m)

uncompress(text, lookup, m) == replay(text, Reversed(lookup), m)

\* ------------------------------------------------------------ the machine
\* three characters of 4 UTF-8 bytes each, different for every i
Block(i) == <<128512 + 3 * i, 128513 + 3 * i, 128514 + 3 * i>>

\* B0 a B0 b B1 c B1 d ...: n blocks, each twice, between different letters
RECURSIVE BlockText(_)
BlockText(n) ==
    IF n = 0 THEN <<>>
    ELSE BlockText(n - 1) \o Block(n - 1) \o <<97 + 2 * (n - 1)>>
                          \o Block(n - 1) \o <<98 + 2 * (n - 1)>>

\* a text whose mode-0 dictionary gets CrEntries entries
LongText == BlockText(CrEntries)

Texts == UNION {[1..n -> Alphabet] : n \in 0..MaxLen} \cup {LongText}
ShortTexts == UNION {[1..n -> Alphabet] : n \in 0..MaxLiveLen}
Artifacts == UNION {[1..n -> ArtAlphabet] : n \in 0..MaxArtLen}

Init ==
    /\ pc = "idle"
    /\ input_text = <<>> /\ mode = 0
    /\ chain = <<>> /\ depth = 0 /\ rets = <<>>
    /\ chunk_index = 0 /\ chunk = <<>> /\ duplicate_indexes = <<>>
    /\ key = <<>> /\ temp_len = 0 /\ prev_same_count = 0
    /\ output_text = <<>>
    /\ d_text = <<>> /\ d_lookup = <<>> /\ d_mode = 0 /\ output = <<>>

\* lines 37, 181-188: compress(path, mode) reads the file holding t and makes
\* the outermost call compress(input_text, {})
CompressCallOn(texts) ==
    /\ pc = "idle"
    /\ \E t \in texts, m \in {0, 1} :
          /\ input_text' = read_file(t)
          /\ mode' = m
          /\ chain' = <<[text |-> read_file(t), lookup |-> <<>>]>>
    /\ depth' = 1
    /\ pc' = "compress"
    /\ UNCHANGED <<locals, rets, output_text, decoder>>

CompressCall == CompressCallOn(Texts)

\* lines 116-134: the for loop comes to the first chunk_index whose chunk has
\* a duplicate, and the while loop is set up
Scan ==
    /\ pc = "compress"
    /\ LET text == chain[depth].text
       IN  \E ci \in 0..(Len(text) - base_chunk_len(mode)) :
              /\ duplicates(text, mode, ci) # <<>>
              /\ \A cj \in 0..(ci - 1) : duplicates(text, mode, cj) = <<>>
              /\ chunk_index' = ci
              /\ chunk' = Slice(text, ci, ci + base_chunk_len(mode))
              /\ duplicate_indexes' = duplicates(text, mode, ci)
    /\ key' = next_key(mode, chain[depth].lookup)
    /\ temp_len' = base_chunk_len(mode)
    /\ prev_same_count' = 0
    /\ pc' = "extend"
    /\ UNCHANGED <<input_text, mode, chain, depth, rets, output_text, decoder>>

\* lines 136-145: one pass of the while loop
Extend ==
    /\ pc = "extend"
    /\ LET text       == chain[depth].text
           temp_chunk == Slice(text, chunk_index, chunk_index + temp_len + 1)
           survivors  == SelectSeq(duplicate_indexes,
                                   LAMBDA i : Slice(text, i, i + temp_len + 1) = temp_chunk)
       IN  /\ temp_len' = temp_len + 1
           /\ duplicate_indexes' = survivors
           /\ IF Len(survivors) >= prev_same_count /\ survivors # <<>>
              THEN chunk' = temp_chunk /\ pc' = "extend"
              ELSE chunk' = chunk /\ pc' = "replace"
           /\ prev_same_count' = Len(survivors)
    /\ UNCHANGED <<input_text, mode, chain, depth, chunk_index, key, rets, output_text, decoder>>

\* lines 147-157: the chunk is recorded and replaced, and compress is called
\* on the result
Substitute ==
    /\ pc = "replace"
    /\ chain' = Append(chain, [text   |-> Replace(chain[depth].text, chunk, symbol(mode, key)),
                               lookup |-> DictSet(chain[depth].lookup, key, chunk)])
    /\ depth' = depth + 1
    /\ pc' = "compress"
    /\ UNCHANGED <<input_text, mode, locals, rets, output_text, decoder>>

\* line 172: no chunk has a duplicate, the invocation returns its arguments
NoCompression ==
    /\ pc = "compress"
    /\ \A ci \in 0..(Len(chain[depth].text) - base_chunk_len(mode)) :
          duplicates(chain[depth].text, mode, ci) = <<>>
    /\ rets' = (depth :> chain[depth]) @@ rets
    /\ depth' = depth - 1
    /\ pc' = IF depth = 1 THEN "encode" ELSE "decide"
    /\ UNCHANGED <<input_text, mode, chain, locals, output_text, decoder>>

\* lines 163-170: invocation `depth` gets the result of its recursive call
\* and returns
Decide ==
    /\ pc = "decide"
    /\ rets' = (depth :> decide(chain[depth], chain[depth + 1], rets[depth + 1])) @@ rets
    /\ depth' = depth - 1
    /\ pc' = IF depth = 1 THEN "encode" ELSE "decide"
    /\ UNCHANGED <<input_text, mode, chain, locals, output_text, decoder>>

\* lines 188-189
Encode ==
    /\ pc = "encode"
    /\ output_text' = gen_output(rets[1].text, rets[1].lookup)
    /\ pc' = "report"
    /\ UNCHANGED <<input_text, mode, chain, depth, locals, rets, decoder>>

\* lines 192-204: the divisions by the output measure (198) and by the input
\* size and length (201, 202) come before save_file, which writes the
\* characters of output_text as they are (lines 387-388, os.linesep = chr(10))
Report ==
    /\ pc = "report"
    /\ pc' = IF measure(mode, output_text) = 0 \/ input_size = 0 \/ Len(input_text) = 0
             THEN "ZeroDivisionError" ELSE "saved"
    /\ UNCHANGED <<input_text, mode, chain, depth, locals, rets, output_text, decoder>>

\* lines 310, 317: the .llc file is read back by read_file and parsed
ExtractInput ==
    /\ pc = "saved"
    /\ LET r == extract_input(read_file(output_text))
       IN  IF r.error = "IndexError"
           THEN /\ pc' = "IndexError"
                /\ UNCHANGED <<d_text, d_lookup, d_mode>>
           ELSE /\ pc' = "extracted"
                /\ d_text' = r.text
                /\ d_lookup' = r.lookup
                /\ d_mode' = r.mode
    /\ UNCHANGED <<input_text, mode, chain, depth, locals, rets, output_text, output>>

\* lines 318-329
Uncompress ==
    /\ pc = "extracted"
    /\ output' = uncompress(d_text, d_lookup, d_mode)
    /\ pc' = "uncompressed"
    /\ UNCHANGED <<input_text, mode, chain, depth, locals, rets, output_text, d_text, d_lookup, d_mode>>

Next == CompressCall \/ Scan \/ Extend \/ Substitute \/ NoCompression \/ Decide \/ Encode \/ Report \/ ExtractInput \/ Uncompress

Spec == Init /\ [][Next]_vars

\* compress(path, mode) alone, on the shorter texts; the interpreter keeps
\* running the call until it returns or raises
ShortCompressCall == CompressCallOn(ShortTexts)

CompressNext ==
    ShortCompressCall \/ Scan \/ Extend \/ Substitute \/ NoCompression \/ Decide \/ Encode \/ Report

TermSpec == Init /\ [][CompressNext]_vars /\ WF_vars(CompressNext)

\* ------------------------------------- the decoder on an arbitrary artifact
\* line 310: uncompress(path) reads whatever .llc file it is given
GivenArtifact ==
    /\ pc = "idle"
    /\ output_text' \in Artifacts
    /\ pc' = "saved"
    /\ UNCHANGED <<input_text, mode, chain, depth, locals, rets, decoder>>

DecNext == GivenArtifact \/ ExtractInput \/ Uncompress

DecodeSpec == Init /\ [][DecNext]_vars

\* ------------------------------------------------------------ properties
\* the recursive driver has returned to line 188
Returned == pc \notin {"idle", "compress", "extend", "replace", "decide"}
\* the (text, dictionary) the outermost invocation returned
Result == rets[1]
\* the artifact of line 189 exists
Encoded == pc \in {"report", "saved", "ZeroDivisionError", "extracted", "IndexError", "uncompressed"}

\* pat occurs in s
Occurs(pat, s) == \E i \in 0..(Len(s) - Len(pat)) : Slice(s, i, i + Len(pat)) = pat

\* no substring of the mode's base length occurs at two different offsets
NoRepeat(t, m) ==
    \A i, j \in 0..(Len(t) - base_chunk_len(m)) :
        i # j => Slice(t, i, i + base_chunk_len(m)) # Slice(t, j, j + base_chunk_len(m))

\* C1: decoding the artifact of a text free of reserved characters returns
\* the text, also when the dictionary stayed empty.
C1_RoundTrip == pc = "uncompressed" => output = input_text

\* C2: a text without a repeated base-length substring comes back unchanged
\* with an empty dictionary, and its artifact is the text itself.
C2_NoOp ==
    (Returned /\ NoRepeat(input_text, mode)) =>
        /\ Result = [text |-> input_text, lookup |-> <<>>]
        /\ (Encoded => output_text = input_text)

C2_Witness ==
    /\ pc = "saved"
    /\ NoRepeat(input_text, mode)
    /\ Len(input_text) > base_chunk_len(mode)

\* the three malformations of an artifact
NoTerminator(art) == ~Contains(art, text_delimeter)
EmptyEntry(art) ==
    LET entries == Split(Split(art, text_delimeter)[1], lookup_delimeter)
    IN  \E k \in 1..Len(entries) : entries[k] = <<>>
DanglingSymbol(art) ==
    LET r == extract_input(read_file(art))
    IN  /\ r.error = "none"
        /\ \E c \in {3, 1114111} :
              /\ Occurs(symbol(r.mode, <<c>>), r.text)
              /\ <<c>> \notin Keys(r.lookup)
Malformed(art) == NoTerminator(art) \/ EmptyEntry(art) \/ DanglingSymbol(art)

\* C3: decoding a malformed artifact never ends as a successful decode.
C3_MalformedFails == Malformed(output_text) => pc # "uncompressed"

\* C4: the artifact is never larger than the input, both measured in the
\* mode's unit (bytes in mode 0, characters in mode 1).
C4_SizeMetric == Encoded => measure(mode, output_text) <= measure(mode, input_text)

Last(s) == s[Len(s)]

\* C5: every substitution step makes the working text strictly shorter, there
\* are at most len(T) of them, and the recursive driver returns.
C5_Termination ==
    /\ [][(pc = "replace" /\ pc' = "compress")
              => Len(Last(chain').text) < Len(Last(chain).text)]_vars
    /\ [](Len(chain) - 1 <= Len(input_text))
    /\ <>Returned

C5_Witness == Returned /\ Len(chain) >= 4

\* C6: in every dictionary built along the recursion, the chunk of entry k
\* contains neither its own in-text symbol nor that of a later entry.
C6_DictionaryOrder ==
    \A n \in 1..Len(chain) :
        LET lookup == chain[n].lookup
        IN  \A k \in 1..Len(lookup) : \A j \in k..Len(lookup) :
                ~Occurs(symbol(mode, lookup[j][1]), lookup[k][2])

\* a chunk that does contain the symbol of an earlier entry
C6_Witness ==
    \E n \in 1..Len(chain) :
        LET lookup == chain[n].lookup
        IN  \E k \in 2..Len(lookup) : \E j \in 1..(k - 1) :
                Occurs(symbol(mode, lookup[j][1]), lookup[k][2])

\* C7: the extender accepts a longer chunk only if it has at least as many
\* duplicate offsets as the chunk before it, from the first pass on.
C7_StopRule ==
    [][(pc = "extend" /\ pc' = "extend") => Len(duplicate_indexes') >= Len(duplicate_indexes)]_vars

\* two candidates with equal ratios
SameRatio(c, d) == AtMost(ratio(c), ratio(d)) /\ AtMost(ratio(d), ratio(c))

\* invocation n has returned, with equal ratios for its own substitution and
\* for the result of its recursive call, not both negative
Tie(n) ==
    /\ n \in DOMAIN rets
    /\ n < Len(chain)
    /\ SameRatio(chain[n + 1], rets[n + 1])
    /\ ~IsNegative(ratio(chain[n + 1]))

\* C8 as stated: on a tie the invocation returns its own (stop-here) candidate.
C8_TieFavoursStop == \A n \in 1..Len(chain) : Tie(n) => rets[n] = chain[n + 1]

\* C8 as amended: on a tie the invocation returns the result of the
\* recursive call, which has more dictionary entries when the two differ.
C8_TieFavoursRecursion ==
    \A n \in 1..Len(chain) :
        Tie(n) => /\ rets[n] = rets[n + 1]
                  /\ chain[n + 1] # rets[n + 1]
                        => Len(rets[n].lookup) > Len(chain[n + 1].lookup)

\* a tie between two different candidates
C8_Witness ==
    \E n \in 1..Len(chain) :
        /\ Tie(n)
        /\ chain[n + 1] # rets[n + 1]
        /\ Len(rets[n].lookup) > Len(chain[n + 1].lookup)

\* C9: with a non-empty dictionary the decoder infers the compressor's mode,
\* parses the compressor's dictionary (in order) and text from the saved
\* artifact, and the replay returns the input.
C9_DecodeNonEmpty ==
    (Returned /\ Result.lookup # <<>>) =>
        /\ pc # "IndexError"
        /\ pc \in {"extracted", "uncompressed"} =>
              /\ d_mode = mode
              /\ d_lookup = Result.lookup
              /\ d_text = Result.text
        /\ pc = "uncompressed" => output = input_text

\* C10: the driver returns a state of the greedy chain: the input unchanged
\* when no later state has a non-negative ratio, and otherwise a later state
\* whose ratio is the largest among the later states.
C10_BestOfChain ==
    Returned =>
        LET later == 2..Len(chain)
        IN  IF \E j \in later : ~IsNegative(ratio(chain[j]))
            THEN /\ \E j \in later : Result = chain[j]
                 /\ \A j \in later : AtMost(ratio(chain[j]), ratio(Result))
            ELSE Result = chain[1]

\* the returned state is deeper than, and strictly better than, the first
\* substitution, which is not negative itself
C10_Witness ==
    /\ Returned
    /\ Len(chain) >= 3
    /\ Result # chain[2]
    /\ ~AtMost(ratio(Result), ratio(chain[2]))
    /\ ~IsNegative(ratio(chain[2]))
====
